---------------------------- MODULE Spec2Model ----------------------------
(***************************************************************************)
(* A model of deCryptid: the hexagonal grid library (hextools.py), the     *)
(* board content (gameboard.py) and the deduction engine (deduction.py):   *)
(* the clue catalog of a Game, the constraint state of its Players, the    *)
(* solver and the move selector.                                           *)
(*                                                                         *)
(* Python values are represented as follows.                               *)
(*   None / a value v      the sequences << >> / << v >>                   *)
(*   a tuple, a list       a sequence                                      *)
(*   a set                 a set                                           *)
(*   a dict                the sequence of its items [key, val] in         *)
(*                         insertion order (Python dicts are ordered)      *)
(*   a comma separated     the sequence of its comma separated parts       *)
(*   string "a,b"          << "a", "b" >>  (what str.split(",") returns)   *)
(*   True / False marks    the strings "True" / "False" (a mark list       *)
(*                         mixes them with None)                           *)
(***************************************************************************)
EXTENDS Integers, Sequences, FiniteSets, TLC

VARIABLES
    board,      \* board[g]: the HexGrid._data of game g, rows of Hex objects
    tile_set,   \* tile_set[g]: Game.tile_set, the cubic cells of the board
    features,   \* features[g]: Game.features, feature name -> set of cells
    clues,      \* clues[g]: Game.clues, the catalog dict Clue -> region
    players,    \* players[g]: Game.players, the sequence of Player objects
    budget,     \* how many more calls the driver will make
    calls,      \* calls[g][n]: the calls that returned, per player and kind
    ret         \* the last call: its arguments, locals and outcome

vars == <<board, tile_set, features, clues, players, budget, calls, ret>>

\* ----------------------------------------------------------------- bounds

\* The number of add_clue and play calls made on the games of one behaviour.
MaxCalls == 3

\* The number of add_clue, play and solutions calls made on the games of one
\* behaviour that calls solutions.
MaxSolverCalls == 2

\* The longest clue_list handed to solve.
MaxSolveLen == 2

\* ------------------------------------------------------- Python primitives

None == << >>

Some(v) == << v >>

Range(s) == { s[i] : i \in DOMAIN s }

\* x >> 1 on Python integers: the floor of x / 2, also for negative x.
Shr1(x) == x \div 2

Abs(x) == IF x < 0 THEN -x ELSE x

\* dict operations on a sequence of items.
DictKeys(d) == [ i \in DOMAIN d |-> d[i].key ]

DictHas(d, k) == \E i \in DOMAIN d : d[i].key = k

\* d[k]; the caller has checked DictHas(d, k) (a KeyError otherwise).
DictGet(d, k) == d[CHOOSE i \in DOMAIN d : d[i].key = k].val

\* d[k] = v: a present key keeps its place, a new key goes last.
DictSet(d, k, v) ==
    IF DictHas(d, k)
    THEN [ i \in DOMAIN d |-> IF d[i].key = k THEN [key |-> k, val |-> v] ELSE d[i] ]
    ELSE Append(d, [key |-> k, val |-> v])

\* -------------------------------------------------------------- gameboard

TERRAINS ==
    << [key |-> "F", val |-> "forest"], [key |-> "D", val |-> "desert"],
       [key |-> "W", val |-> "water"],  [key |-> "S", val |-> "swamp"],
       [key |-> "M", val |-> "mountain"] >>

ANIMALS == << [key |-> "b", val |-> "bear"], [key |-> "c", val |-> "cougar"] >>

\* dict.values()
DictValues(d) == [ i \in DOMAIN d |-> d[i].val ]

\* The (name, color) pairs, colors outermost.
STRUCTURES ==
    LET colors == << "green", "white", "blue", "black" >>
        names  == << "standing stone", "shack" >>
    IN  [ n \in 1..8 |-> << names[((n - 1) % 2) + 1], colors[((n - 1) \div 2) + 1] >> ]

\* The length of Hex.players.
MarkCount == 5

\* Hex(terrain, animal, structure): terrain is a one letter code or a name.
Hex(terrain, animal, structure) ==
    [ terrain   |-> IF DictHas(TERRAINS, terrain) THEN DictGet(TERRAINS, terrain)
                    ELSE terrain,
      animal    |-> animal,
      structure |-> structure,
      players   |-> [ n \in 1..MarkCount |-> "None" ] ]

\* --------------------------------------------------------------- hextools

\* HexGrid(rows, columns, content, iterate_content=True)._data
HexGrid(rows, columns, content) ==
    [ i \in 1..rows |-> [ j \in 1..columns |-> content[(i - 1) * columns + j] ] ]

dimensions(data) == << Len(data), Len(data[1]) >>

array_to_axial(row, column) == << row, column - Shr1(row) >>

\* axial_to_array halving the row upwards.
axial_to_array_half_up(pos) == << pos[1], pos[2] + Shr1(pos[1] + 1) >>

axial_to_array(pos) == << pos[1], pos[2] + Shr1(pos[1]) >>

cubic(pos) == << pos[1], pos[2], -pos[1] - pos[2] >>

\* A Python index into a list of length n: a negative index counts from the
\* end; outside -n..n-1 the access raises IndexError (reported as 0 here).
PyIndex(i, n) == IF 0 <= i /\ i < n THEN i + 1
                 ELSE IF -n <= i /\ i < 0 THEN n + i + 1
                 ELSE 0

\* HexGrid.__iter__: the (axial position, content) pairs in row-major order.
GridItems(data) ==
    LET cols == Len(data[1])
    IN  [ n \in 1..(Len(data) * cols) |->
            LET i == (n - 1) \div cols
                j == (n - 1) % cols
            IN  [pos |-> array_to_axial(i, j), tile |-> data[i + 1][j + 1]] ]

\* Whether HexGrid.gethex(pos) returns (it raises IndexError otherwise).
gethex_ok(data, pos) ==
    LET ij == axial_to_array(pos)
        r  == PyIndex(ij[1], Len(data))
    IN  r # 0 /\ PyIndex(ij[2], Len(data[r])) # 0

\* HexGrid.gethex(pos) where it returns.
gethex(data, pos) ==
    LET ij == axial_to_array(pos)
        r  == PyIndex(ij[1], Len(data))
    IN  data[r][PyIndex(ij[2], Len(data[r]))]

\* _grid_dist
grid_dist(pos1, pos2) ==
    LET a == cubic(pos1)
        b == cubic(pos2)
        d == { Abs(a[k] - b[k]) : k \in 1..3 }
    IN  CHOOSE m \in d : \A x \in d : x <= m

\* adjacent(cubic_pos): the six neighbours, in the order they are yielded.
adjacent(cubic_pos) ==
    LET full_cubic == cubic(cubic_pos)
        pairs == << <<1, 2>>, <<1, 3>>, <<2, 1>>, <<2, 3>>, <<3, 1>>, <<3, 2>> >>
    IN  [ n \in 1..6 |->
            [ k \in 1..3 |-> IF k = pairs[n][1] THEN full_cubic[k] + 1
                             ELSE IF k = pairs[n][2] THEN full_cubic[k] - 1
                             ELSE full_cubic[k] ] ]

\* The loop of expand keeping only the cells of the latest round.
RECURSIVE ExpandLoop_latest_round(_, _, _)
ExpandLoop_latest_round(reg_set, recent, rounds) ==
    IF rounds = 0 THEN reg_set
    ELSE LET new_set == UNION { Range(adjacent(pos)) : pos \in recent }
         IN  ExpandLoop_latest_round(new_set, new_set \ recent, rounds - 1)

\* The loop of expand: `rounds` more rounds from (reg_set, recent).
RECURSIVE ExpandLoop(_, _, _)
ExpandLoop(reg_set, recent, rounds) ==
    IF rounds = 0 THEN reg_set
    ELSE LET new_set == UNION { Range(adjacent(pos)) : pos \in recent }
         IN  ExpandLoop(reg_set \cup new_set, new_set \ recent, rounds - 1)

expand(region, radius) ==
    LET reg_set == { cubic(pos) : pos \in region }
    IN  ExpandLoop(reg_set, reg_set, radius)


\* --------------------------------------------------------- deduction: Clue

\* Python's order on the feature names (str comparison).
NameOrder ==
    << "bear", "black", "blue", "cougar", "desert", "forest", "green",
       "mountain", "shack", "standing stone", "swamp", "water", "white" >>

NameRank(name) == CHOOSE i \in DOMAIN NameOrder : NameOrder[i] = name

\* sorted(names)
RECURSIVE SortedNames(_)
SortedNames(names) ==
    IF names = << >> THEN << >>
    ELSE LET m == CHOOSE i \in DOMAIN names :
                    \A j \in DOMAIN names :
                        \/ NameRank(names[i]) < NameRank(names[j])
                        \/ (NameRank(names[i]) = NameRank(names[j]) /\ i <= j)
         IN  << names[m] >>
             \o SortedNames([ k \in 1..(Len(names) - 1) |->
                                IF k < m THEN names[k] ELSE names[k + 1] ])

\* name[0] == "s"
StartsWithS(name) == name \in { "shack", "standing stone", "swamp" }

\* Clue(features, negate) with the radius by kind of feature alone: 0 for
\* terrains, 1 for animals, 2 for structure kinds, 3 for colours.
Clue_radius_by_kind(parts, negate) ==
    LET stripped == IF parts[1] = "not" THEN Tail(parts) ELSE parts
        neg      == IF parts[1] = "not" THEN TRUE ELSE negate
        feats    == SortedNames(stripped)
        radius   == IF feats[1] \in Range(DictValues(ANIMALS)) THEN 1
                    ELSE IF feats[1] \in Range(DictValues(TERRAINS)) THEN 0
                    ELSE IF StartsWithS(feats[1]) THEN 2
                    ELSE 3
    IN  [features |-> feats, negate |-> neg, radius |-> radius]

\* Clue(features, negate): features is the comma separated string, given as
\* its parts. The radius is a function of the features, so that two equal
\* Clue objects (same features, same negate) are equal records.
Clue(parts, negate) ==
    LET stripped == IF parts[1] = "not" THEN Tail(parts) ELSE parts
        neg      == IF parts[1] = "not" THEN TRUE ELSE negate
        feats    == SortedNames(stripped)
        radius   == IF feats[1] \in Range(DictValues(ANIMALS))
                    THEN (IF Len(feats) = 2 THEN 1 ELSE 2)
                    ELSE IF feats[1] \in Range(DictValues(TERRAINS))
                    THEN (IF Len(feats) = 2 THEN 0 ELSE 1)
                    ELSE IF StartsWithS(feats[1]) THEN 2
                    ELSE 3
    IN  [features |-> feats, negate |-> neg, radius |-> radius]

\* --------------------------------------------------------- deduction: Game

\* The keys of Game.features in insertion order (a dict comprehension over
\* feature_names keeps the first occurrence of each name).
feature_names ==
    DictValues(TERRAINS) \o DictValues(ANIMALS)
        \o << "standing stone", "shack" >>
        \o << "green", "white", "blue", "black" >>

\* Game.tile_set
TileSet(data) == { cubic(GridItems(data)[n].pos) : n \in DOMAIN GridItems(data) }

\* Game.features after the first loop of _get_clues.
Features(data) ==
    LET items == GridItems(data)
        has(tile, name) ==
            \/ tile.terrain = name
            \/ (tile.structure # None
                    /\ (tile.structure[1][1] = name \/ tile.structure[1][2] = name))
            \/ (tile.animal # None /\ tile.animal[1] = name)
    IN  [ k \in DOMAIN feature_names |->
            [ key |-> feature_names[k],
              val |-> { cubic(items[n].pos) :
                          n \in { m \in DOMAIN items : has(items[m].tile, feature_names[k]) } } ] ]

\* Game._add_clue(region, features) on the dict d.
add_clue_to(d, region, parts) ==
    LET clue == Clue(parts, FALSE)
    IN  DictSet(d, clue, expand(region, clue.radius))

\* for feature, region in self.features.items(): if region: _add_clue(...)
RECURSIVE FeatureClues(_, _, _)
FeatureClues(d, feats, n) ==
    IF n > Len(feats) THEN d
    ELSE FeatureClues(IF feats[n].val # {}
                      THEN add_clue_to(d, feats[n].val, << feats[n].key >>)
                      ELSE d,
                      feats, n + 1)

\* itertools.combinations(seq, 2)
RECURSIVE Combinations2(_)
Combinations2(seq) ==
    IF Len(seq) < 2 THEN << >>
    ELSE [ k \in 1..(Len(seq) - 1) |-> << seq[1], seq[k + 1] >> ]
            \o Combinations2(Tail(seq))

\* for first, second in combinations(TERRAINS.values(), 2): _add_clue(...)
RECURSIVE PairClues(_, _, _, _)
PairClues(d, feats, pairs, n) ==
    IF n > Len(pairs) THEN d
    ELSE PairClues(add_clue_to(d,
                               DictGet(feats, pairs[n][1]) \cup DictGet(feats, pairs[n][2]),
                               pairs[n]),
                   feats, pairs, n + 1)

\* for clue, tiles in positives: self.clues[negation] = self.tile_set - tiles
RECURSIVE NegatedClues(_, _, _, _)
NegatedClues(d, positives, tiles, n) ==
    IF n > Len(positives) THEN d
    ELSE NegatedClues(DictSet(d, Clue(positives[n].key.features, TRUE),
                              tiles \ positives[n].val),
                      positives, tiles, n + 1)

\* _get_clues adding the negated clues whatever the structures are.
get_clues_always_negated(data) ==
    LET feats    == Features(data)
        tiles    == TileSet(data)
        single   == FeatureClues(<< >>, feats, 1)
        animals  == add_clue_to(single,
                                DictGet(feats, "bear") \cup DictGet(feats, "cougar"),
                                << "bear", "cougar" >>)
        paired   == PairClues(animals, feats, Combinations2(DictValues(TERRAINS)), 1)
        on_board == [ i \in DOMAIN paired |->
                        [key |-> paired[i].key, val |-> paired[i].val \cap tiles] ]
    IN  NegatedClues(on_board, on_board, tiles, 1)

\* Game._get_clues: the catalog of a board.
get_clues(data) ==
    LET feats    == Features(data)
        tiles    == TileSet(data)
        single   == FeatureClues(<< >>, feats, 1)
        animals  == add_clue_to(single,
                                DictGet(feats, "bear") \cup DictGet(feats, "cougar"),
                                << "bear", "cougar" >>)
        paired   == PairClues(animals, feats, Combinations2(DictValues(TERRAINS)), 1)
        on_board == [ i \in DOMAIN paired |->
                        [key |-> paired[i].key, val |-> paired[i].val \cap tiles] ]
    IN  IF DictGet(feats, "black") # {}
        THEN NegatedClues(on_board, on_board, tiles, 1)
        ELSE on_board

\* ------------------------------------------------------- deduction: Player

\* restrict_clues with the test of the positives left out.
restrict_clues_negatives_only(self) ==
    LET kept == SelectSeq(self.clues, LAMBDA it : self.negatives \cap it.val = {})
    IN  [ self EXCEPT !.clues = kept,
                      !.known_clue = IF Len(kept) = 1 THEN Some(kept[1].key)
                                     ELSE self.known_clue ]

\* restrict_clues that keeps a clue whose region meets the negatives and
\* takes the negatives out of its region instead.
restrict_clues_trim(self) ==
    LET kept == SelectSeq(self.clues, LAMBDA it : self.positives \ it.val = {})
        trim == [ i \in DOMAIN kept |->
                    [key |-> kept[i].key, val |-> kept[i].val \ self.negatives] ]
    IN  [ self EXCEPT !.clues = trim,
                      !.known_clue = IF Len(trim) = 1 THEN Some(trim[1].key)
                                     ELSE self.known_clue ]

\* Player.restrict_clues
restrict_clues(self) ==
    LET removals == SelectSeq(self.clues,
                        LAMBDA it : \/ self.negatives \cap it.val # {}
                                    \/ self.positives \ it.val # {})
        removed  == Range(DictKeys(removals))
        kept     == SelectSeq(self.clues, LAMBDA it : it.key \notin removed)
    IN  [ self EXCEPT !.clues = kept,
                      !.known_clue = IF Len(kept) = 1 THEN Some(kept[1].key)
                                     ELSE self.known_clue ]

\* Whether Player(game, number, known_clue=known_clue) is constructed (it
\* raises ValueError for a known clue that is not in the catalog).
PlayerOk(catalog, known_clue) ==
    known_clue = None \/ DictHas(catalog, Clue(known_clue[1], FALSE))

\* Player(game, player_number, known_clue=known_clue): known_clue is None or
\* a string. positives and negatives are left at their default, None.
Player(catalog, player_number, known_clue) ==
    restrict_clues([ clues      |-> catalog,
                     number     |-> player_number,
                     known_clue |-> IF known_clue = None THEN None
                                    ELSE Some(Clue(known_clue[1], FALSE)),
                     positives  |-> {},
                     negatives  |-> {} ])


\* Player.add_clue(position, clue_type)
add_clue(self, position, clue_type) ==
    restrict_clues(IF clue_type
                   THEN [ self EXCEPT !.positives = @ \cup { position } ]
                   ELSE [ self EXCEPT !.negatives = @ \cup { position } ])

\* The mark a play of play_type stores in Hex.players.
Mark(play_type) == IF play_type THEN "True" ELSE "False"

\* The cells of a set in the order of their (row, column) array index.
RECURSIVE SortedCells(_)
SortedCells(S) ==
    IF S = {} THEN << >>
    ELSE LET m == CHOOSE x \in S : \A y \in S :
                    \/ x[1] < y[1]
                    \/ (x[1] = y[1] /\ x[2] <= y[2])
         IN  << m >> \o SortedCells(S \ {m})

\* The orders in which iterating a Python set may yield its elements. The
\* language leaves the order open; the rotations of one order let every
\* element come first.
Enumerations(S) ==
    LET base == SortedCells(S)
        n    == Len(base)
    IN  IF n = 0 THEN { << >> }
        ELSE { [ i \in 1..n |-> base[((i - 1 + k) % n) + 1] ] : k \in 0..(n - 1) }

\* PlayRegion without the complement for a negative play.
PlayRegion_no_complement(self, tiles, play_type) ==
    DictGet(self.clues, self.known_clue[1])

\* The region play chooses in: the known clue's region, or its complement.
PlayRegion(self, tiles, play_type) ==
    IF play_type THEN DictGet(self.clues, self.known_clue[1])
    ELSE tiles \ DictGet(self.clues, self.known_clue[1])

\* IsPossibleTile without the test of the player's positives and negatives.
IsPossibleTile_marks_only(self, data, tile) ==
    "False" \notin Range(gethex(data, tile).players)

\* The condition of the list comprehension that builds possible_tiles.
IsPossibleTile(self, data, tile) ==
    /\ "False" \notin Range(gethex(data, tile).players)
    /\ tile \notin (self.positives \cup self.negatives)

\* Player._play_random: the cells random.choice may return.
play_random(self, possible_tiles, play_type) == Range(possible_tiles)

\* The dict clues_remaining that _play_clue_count builds: a tile gets an
\* entry when its count is first incremented.
CluesRemaining(self, possible_tiles, play_type) ==
    LET count(tile) ==
            Cardinality({ i \in DOMAIN self.clues :
                            play_type = (tile \in self.clues[i].val) })
        counted == SelectSeq(possible_tiles, LAMBDA tile : count(tile) > 0)
    IN  [ i \in DOMAIN counted |-> [key |-> counted[i], val |-> count(counted[i])] ]

\* _play_clue_count returning the last key with the largest count.
play_clue_count_last(self, possible_tiles, play_type) ==
    LET clues_remaining == CluesRemaining(self, possible_tiles, play_type)
    IN  { clues_remaining[i].key :
            i \in { j \in DOMAIN clues_remaining :
                      /\ \A k \in DOMAIN clues_remaining :
                            clues_remaining[k].val <= clues_remaining[j].val
                      /\ \A k \in (j + 1)..Len(clues_remaining) :
                            clues_remaining[k].val < clues_remaining[j].val } }

\* _play_clue_count returning the first key with the smallest count.
play_clue_count_fewest(self, possible_tiles, play_type) ==
    LET clues_remaining == CluesRemaining(self, possible_tiles, play_type)
    IN  { clues_remaining[i].key :
            i \in { j \in DOMAIN clues_remaining :
                      /\ \A k \in DOMAIN clues_remaining :
                            clues_remaining[k].val >= clues_remaining[j].val
                      /\ \A k \in 1..(j - 1) :
                            clues_remaining[k].val > clues_remaining[j].val } }

\* Player._play_clue_count: max() returns the first key with the largest
\* count; on an empty dict it raises ValueError (no cell is returned).
play_clue_count(self, possible_tiles, play_type) ==
    LET clues_remaining == CluesRemaining(self, possible_tiles, play_type)
    IN  { clues_remaining[i].key :
            i \in { j \in DOMAIN clues_remaining :
                      /\ \A k \in DOMAIN clues_remaining :
                            clues_remaining[k].val <= clues_remaining[j].val
                      /\ \A k \in 1..(j - 1) :
                            clues_remaining[k].val < clues_remaining[j].val } }

\* play_func(possible_tiles, play_type) for the two values of choice.
play_func(choice, self, possible_tiles, play_type) ==
    IF choice = "random" THEN play_random(self, possible_tiles, play_type)
    ELSE play_clue_count(self, possible_tiles, play_type)

\* self.game.board.gethex(play).players[self.number] = play_type
MarkBoard(data, play, number, play_type) ==
    LET ij == axial_to_array(play)
        r  == PyIndex(ij[1], Len(data))
        c  == PyIndex(ij[2], Len(data[r]))
    IN  [ data EXCEPT ![r][c].players[number + 1] = Mark(play_type) ]

\* ------------------------------------------------------- deduction: solver

\* set.intersection(*regions) for a non-empty list of regions.
RECURSIVE Intersection(_)
Intersection(regions) ==
    IF Len(regions) = 1 THEN regions[1]
    ELSE regions[1] \cap Intersection(Tail(regions))

\* solve that accepts any non-empty intersection and returns one of its cells.
solve_any_cell(catalog, clue_list) ==
    IF Cardinality(Range(clue_list)) # Len(clue_list)
    THEN [exc |-> "ValueError", value |-> None]
    ELSE IF clue_list = << >>
    THEN [exc |-> "TypeError", value |-> None]
    ELSE LET region == Intersection([ i \in DOMAIN clue_list |->
                                        DictGet(catalog, clue_list[i]) ])
         IN  IF Cardinality(region) < 1
             THEN [exc |-> "IncompatibleCluesError", value |-> None]
             ELSE [exc |-> "None", value |-> Some(CHOOSE tile \in region : TRUE)]

\* Game.solve(clue_list): the exception raised ("None": it returns) and the
\* cell returned. An empty clue_list makes set.intersection raise TypeError.
solve(catalog, clue_list) ==
    IF Cardinality(Range(clue_list)) # Len(clue_list)
    THEN [exc |-> "ValueError", value |-> None]
    ELSE IF clue_list = << >>
    THEN [exc |-> "TypeError", value |-> None]
    ELSE LET region == Intersection([ i \in DOMAIN clue_list |->
                                        DictGet(catalog, clue_list[i]) ])
         IN  IF Cardinality(region) # 1
             THEN [exc |-> "IncompatibleCluesError", value |-> None]
             ELSE [exc |-> "None", value |-> Some(CHOOSE tile \in region : TRUE)]

\* itertools.product(*clue_sets): the last position advances fastest.
RECURSIVE Product(_)
Product(clue_sets) ==
    IF clue_sets = << >> THEN << << >> >>
    ELSE LET head == clue_sets[1]
             rest == Product(Tail(clue_sets))
         IN  [ n \in 1..(Len(head) * Len(rest)) |->
                 << head[((n - 1) \div Len(rest)) + 1] >>
                    \o rest[((n - 1) % Len(rest)) + 1] ]

\* itertools.combinations(clue_list, len(clue_list) - 1): one element left
\* out, the last one first.
SubLists(clue_list) ==
    LET n == Len(clue_list)
    IN  [ k \in 1..n |->
            [ i \in 1..(n - 1) |-> IF i < n + 1 - k THEN clue_list[i]
                                   ELSE clue_list[i + 1] ] ]

\* The loop body without the test of the sub lists.
IsSolution_no_minimality(catalog, clue_list) ==
    solve(catalog, clue_list).exc = "None"

\* The body of the loop of Game.solutions: whether clue_list's solution is
\* appended. A sub list that solve accepts raises ValueError, which the outer
\* except clause swallows with the exceptions of solve.
IsSolution(catalog, clue_list) ==
    /\ solve(catalog, clue_list).exc = "None"
    /\ \A k \in DOMAIN SubLists(clue_list) :
          solve(catalog, SubLists(clue_list)[k]).exc = "IncompatibleCluesError"

\* Game.solutions(*known_players): known_players are player numbers.
solutions(catalog, plrs, known_players) ==
    IF \E n \in known_players : plrs[n + 1].known_clue = None
    THEN [exc |-> "ValueError", value |-> << >>]
    ELSE LET clue_sets == [ i \in DOMAIN plrs |->
                              IF (i - 1) \in known_players
                              THEN << plrs[i].known_clue[1] >>
                              ELSE DictKeys(plrs[i].clues) ]
             accepted  == SelectSeq(Product(clue_sets),
                                    LAMBDA clue_list : IsSolution(catalog, clue_list))
         IN  [exc   |-> "None",
              value |-> [ i \in DOMAIN accepted |-> solve(catalog, accepted[i]).value[1] ]]


\* ------------------------------------------------------------ the driver

\* A 2 x 2 board without structures (basic mode).
BoardBasic ==
    HexGrid(2, 2, << Hex("F", None, None), Hex("F", None, None),
                     Hex("D", None, None), Hex("W", None, None) >>)

\* The same terrains with a bear territory and a black shack (advanced mode).
BoardAdvanced ==
    HexGrid(2, 2, << Hex("F", Some("bear"), None), Hex("F", None, None),
                     Hex("D", None, None),
                     Hex("W", None, Some(<< "shack", "black" >>)) >>)

\* The arguments of Game(board, player_count, known_clues) the driver uses:
\* a basic game whose players' clues are known and name one cell together,
\* and an advanced game whose players' clues are unknown.
Fixtures ==
    { [board |-> BoardBasic, player_count |-> 3,
       known_clues |-> Some(<< << "water" >>, << "water", "forest" >>,
                               << "forest", "desert" >> >>)],
      [board |-> BoardAdvanced, player_count |-> 3, known_clues |-> None] }

\* Whether Game(board, player_count, known_clues) is constructed.
GameOk(fx) ==
    /\ fx.player_count \in { 3, 4, 5 }
    /\ fx.known_clues # None =>
          \A n \in 1..fx.player_count :
              PlayerOk(get_clues(fx.board), Some(fx.known_clues[1][n]))

\* Game(board, player_count, known_clues).players
GamePlayers(fx) ==
    [ n \in 1..fx.player_count |->
        Player(get_clues(fx.board), n - 1,
               IF fx.known_clues = None THEN None
               ELSE Some(fx.known_clues[1][n])) ]

NoCalls(fx) == [ n \in 1..fx.player_count |-> [positive |-> 0, negative |-> 0, add_clue |-> 0] ]

\* The games fxs[1], fxs[2], ... after their construction.
InitGames(fxs, calls_left) ==
    /\ board    = [ g \in DOMAIN fxs |-> fxs[g].board ]
    /\ tile_set = [ g \in DOMAIN fxs |-> TileSet(fxs[g].board) ]
    /\ features = [ g \in DOMAIN fxs |-> Features(fxs[g].board) ]
    /\ clues    = [ g \in DOMAIN fxs |-> get_clues(fxs[g].board) ]
    /\ players  = [ g \in DOMAIN fxs |-> GamePlayers(fxs[g]) ]
    /\ calls    = [ g \in DOMAIN fxs |-> NoCalls(fxs[g]) ]
    /\ budget   = calls_left
    /\ ret      = [op |-> "Game"]

Init == \E fx \in Fixtures : GameOk(fx) /\ InitGames(<< fx >>, MaxCalls)

Games == DOMAIN players

PlayerNumbers(g) == 0..(Len(players[g]) - 1)

\* add_clue on a player whose clues dict is the game's own dict, shared by
\* all players (no copy taken in Player.__init__).
AddClueCall_shared_clues(g, number, position, clue_type) ==
    LET after == add_clue(players[g][number + 1], position, clue_type)
    IN  /\ budget > 0
        /\ budget' = budget - 1
        /\ players' = [ players EXCEPT ![g] =
                          [ n \in DOMAIN players[g] |->
                              IF n = number + 1 THEN after
                              ELSE [ players[g][n] EXCEPT !.clues = after.clues ] ] ]
        /\ clues' = [ clues EXCEPT ![g] = after.clues ]
        /\ calls' = [ calls EXCEPT ![g][number + 1].add_clue = @ + 1 ]
        /\ ret' = [op |-> "add_clue", game |-> g, number |-> number,
                   position |-> position, clue_type |-> clue_type, exc |-> "None"]
        /\ UNCHANGED <<board, tile_set, features>>

\* players[g][number].add_clue(position, clue_type)
AddClueCall(g, number, position, clue_type) ==
    /\ budget > 0
    /\ budget' = budget - 1
    /\ players' = [ players EXCEPT ![g][number + 1] = add_clue(@, position, clue_type) ]
    /\ calls' = [ calls EXCEPT ![g][number + 1].add_clue = @ + 1 ]
    /\ ret' = [op |-> "add_clue", game |-> g, number |-> number,
               position |-> position, clue_type |-> clue_type, exc |-> "None"]
    /\ UNCHANGED <<board, tile_set, features, clues>>

\* A call of play that raises after it has filtered the known clue's region
\* in place (region is the very set stored in self.clues for a positive play).
PlayRaises_filters_in_place(g, number, play_type, choice, exc, possible_tiles) ==
    LET self == players[g][number + 1]
    IN  /\ ret' = [op |-> "play", game |-> g, number |-> number,
                   play_type |-> play_type, choice |-> choice, exc |-> exc,
                   possible_tiles |-> possible_tiles, clues_remaining |-> << >>,
                   play |-> None]
        /\ players' = IF exc = "NoLegalPlayError" /\ play_type
                      THEN [ players EXCEPT ![g][number + 1].clues =
                               DictSet(@, self.known_clue[1], Range(possible_tiles)) ]
                      ELSE players
        /\ UNCHANGED <<board, tile_set, features, clues, calls>>

\* A call of play that raises: nothing is written before the raise.
PlayRaises(g, number, play_type, choice, exc, possible_tiles) ==
    /\ ret' = [op |-> "play", game |-> g, number |-> number,
               play_type |-> play_type, choice |-> choice, exc |-> exc,
               possible_tiles |-> possible_tiles, clues_remaining |-> << >>,
               play |-> None]
    /\ UNCHANGED <<board, tile_set, features, clues, players, calls>>

\* A call of play that marks the cell `play`.
PlayMarks(g, number, play_type, choice, possible_tiles, play) ==
    LET self   == players[g][number + 1]
        marked == IF play_type
                  THEN [ self EXCEPT !.positives = @ \cup { play } ]
                  ELSE [ self EXCEPT !.negatives = @ \cup { play } ]
    IN  /\ board' = [ board EXCEPT ![g] = MarkBoard(@, play, number, play_type) ]
        /\ players' = [ players EXCEPT ![g][number + 1] = restrict_clues(marked) ]
        /\ calls' = [ calls EXCEPT ![g][number + 1] =
                        IF play_type THEN [ @ EXCEPT !.positive = @ + 1 ]
                        ELSE [ @ EXCEPT !.negative = @ + 1 ] ]
        /\ ret' = [op |-> "play", game |-> g, number |-> number,
                   play_type |-> play_type, choice |-> choice, exc |-> "None",
                   possible_tiles |-> possible_tiles,
                   clues_remaining |->
                       IF choice = "cluecount"
                       THEN CluesRemaining(self, possible_tiles, play_type)
                       ELSE << >>,
                   play |-> Some(play)]
        /\ UNCHANGED <<tile_set, features, clues>>

\* players[g][number].play(play_type, choice)
PlayCall(g, number, play_type, choice) ==
    LET self == players[g][number + 1]
    IN  /\ budget > 0
        /\ budget' = budget - 1
        /\ IF self.known_clue = None
           THEN PlayRaises(g, number, play_type, choice, "UnknownClueError", << >>)
           ELSE IF ~DictHas(self.clues, self.known_clue[1])
           THEN PlayRaises(g, number, play_type, choice, "KeyError", << >>)
           ELSE \E possible_tiles \in
                      Enumerations({ tile \in PlayRegion(self, tile_set[g], play_type) :
                                       IsPossibleTile(self, board[g], tile) }) :
                  IF possible_tiles = << >>
                  THEN PlayRaises(g, number, play_type, choice, "NoLegalPlayError",
                                  possible_tiles)
                  ELSE IF play_func(choice, self, possible_tiles, play_type) = {}
                  THEN PlayRaises(g, number, play_type, choice, "ValueError",
                                  possible_tiles)
                  ELSE \E play \in play_func(choice, self, possible_tiles, play_type) :
                          PlayMarks(g, number, play_type, choice, possible_tiles, play)

AddClueStep ==
    \E g \in Games : \E number \in PlayerNumbers(g) :
        \E position \in tile_set[g] : \E clue_type \in BOOLEAN :
            AddClueCall(g, number, position, clue_type)

PlayStep ==
    \E g \in Games : \E number \in PlayerNumbers(g) :
        \E play_type \in BOOLEAN : \E choice \in { "random", "cluecount" } :
            PlayCall(g, number, play_type, choice)

Next == AddClueStep \/ PlayStep

Spec == Init /\ [][Next]_vars


\* The clue lists of at most n catalog clues.
ClueLists(catalog, n) ==
    UNION { [ 1..k -> Range(DictKeys(catalog)) ] : k \in 0..n }

\* games[g].solve(clue_list)
SolveCall(g, clue_list) ==
    /\ budget > 0
    /\ budget' = budget - 1
    /\ ret' = [op |-> "solve", game |-> g, clue_list |-> clue_list,
               exc |-> solve(clues[g], clue_list).exc,
               value |-> solve(clues[g], clue_list).value]
    /\ UNCHANGED <<board, tile_set, features, clues, players, calls>>

\* games[g].solutions(*known_players)
SolutionsCall(g, known_players) ==
    /\ budget > 0
    /\ budget' = budget - 1
    /\ ret' = [op |-> "solutions", game |-> g, known_players |-> known_players,
               exc |-> solutions(clues[g], players[g], known_players).exc,
               value |-> solutions(clues[g], players[g], known_players).value]
    /\ UNCHANGED <<board, tile_set, features, clues, players, calls>>

SolveStep ==
    \E g \in Games : \E clue_list \in ClueLists(clues[g], MaxSolveLen) :
        SolveCall(g, clue_list)

SolutionsStep ==
    \E g \in Games : \E known_players \in SUBSET PlayerNumbers(g) :
        SolutionsCall(g, known_players)

\* One call of solve on a game as constructed.
InitSolve == \E fx \in Fixtures : GameOk(fx) /\ InitGames(<< fx >>, 1)

NextSolve == SolveStep

SpecSolve == InitSolve /\ [][NextSolve]_vars

\* The games of the behaviours that call solutions: the basic game with known
\* clues, and the same game with unknown clues.
SolverFixtures ==
    { fx \in Fixtures : fx.board = BoardBasic }
        \cup { [board |-> BoardBasic, player_count |-> 3, known_clues |-> None] }

InitSolutions ==
    \E fx \in SolverFixtures : GameOk(fx) /\ InitGames(<< fx >>, MaxSolverCalls)

NextSolutions == AddClueStep \/ PlayStep \/ SolutionsStep

SpecSolutions == InitSolutions /\ [][NextSolutions]_vars

\* ------------------------------------------------- claims: player and play

\* This step is a call of op (every call uses up budget).
IsCall(op) == budget' = budget - 1 /\ ret'.op = op

\* The marks on the cells of game g's board, in the state data.
Marks(data, tiles) == [ tile \in tiles |-> gethex(data, tile).players ]

\* C1: every clue in a player's candidate set has a region that contains all
\* of the player's positives and none of the player's negatives.
C1_RetainedCluesFitObservations ==
    \A g \in Games : \A n \in DOMAIN players[g] :
        \A i \in DOMAIN players[g][n].clues :
            /\ players[g][n].positives \subseteq players[g][n].clues[i].val
            /\ players[g][n].negatives \cap players[g][n].clues[i].val = {}

\* A player with positives and negatives whose candidate set has lost clues
\* and kept some.
C1_Witness ==
    \E g \in Games : \E n \in DOMAIN players[g] :
        /\ players[g][n].positives # {}
        /\ players[g][n].negatives # {}
        /\ Len(players[g][n].clues) > 1
        /\ Len(players[g][n].clues) < Len(clues[g])

\* C2: a call of add_clue or play leaves every player's candidate set a
\* subset (keys and regions) of what it was, so its size never increases.
C2_CandidatesOnlyShrink ==
    [][ \A g \in Games : \A n \in DOMAIN players[g] :
            /\ Range(players'[g][n].clues) \subseteq Range(players[g][n].clues)
            /\ Len(players'[g][n].clues) <= Len(players[g][n].clues) ]_vars

\* A play has shrunk the candidate set of the player who made it.
C2_Witness ==
    /\ ret.op = "play"
    /\ ret.exc = "None"
    /\ Len(players[ret.game][ret.number + 1].clues) < Len(clues[ret.game])
    /\ players[ret.game][ret.number + 1].clues # << >>

\* C3: a player's known clue, once set, is never replaced by another clue.
C3_KnownClueNeverReplaced ==
    [][ \A g \in Games : \A n \in DOMAIN players[g] :
            players[g][n].known_clue # None
                => players'[g][n].known_clue = players[g][n].known_clue ]_vars

\* C6: a play that fails with UnknownClueError or NoLegalPlayError leaves
\* every player and every mark on the grid as it was.
C6_FailedPlayChangesNothing ==
    [][ (IsCall("play") /\ ret'.exc \in { "UnknownClueError", "NoLegalPlayError" })
            => (players' = players /\ board' = board) ]_vars

\* A play has failed for want of a legal cell, after calls that gave the
\* player observations.
C6_Witness ==
    /\ ret.op = "play"
    /\ ret.exc = "NoLegalPlayError"
    /\ LET self == players[ret.game][ret.number + 1]
       IN  self.positives \cup self.negatives # {}

\* C7: a successful play marks exactly one cell, in the known clue's region
\* for a positive play and in its complement on the board for a negative
\* one; the cell is new to the player's positives (negatives), which grow by
\* it alone, and the other set is unchanged. A player on whom add_clue was
\* never called has as many positives and negatives as successful positive
\* and negative plays.
C7_PlayMarksOneCell ==
    /\ [][ (IsCall("play") /\ ret'.exc = "None") =>
             LET g      == ret'.game
                 n      == ret'.number + 1
                 before == players[g][n]
                 after  == players'[g][n]
                 c      == ret'.play[1]
                 region == DictGet(clues[g], before.known_clue[1])
             IN  /\ before.known_clue # None
                 /\ c \in tile_set[g]
                 /\ ret'.play_type <=> c \in region
                 /\ c \notin before.positives \cup before.negatives
                 /\ after.positives =
                        IF ret'.play_type THEN before.positives \cup { c }
                        ELSE before.positives
                 /\ after.negatives =
                        IF ret'.play_type THEN before.negatives
                        ELSE before.negatives \cup { c }
                 /\ \A tile \in tile_set[g] : \A k \in 1..MarkCount :
                        Marks(board'[g], tile_set[g])[tile][k] =
                            IF tile = c /\ k = n THEN Mark(ret'.play_type)
                            ELSE Marks(board[g], tile_set[g])[tile][k]
                 /\ Marks(board[g], tile_set[g])[c][n] = "None" ]_vars
    /\ [](\A g \in Games : \A n \in DOMAIN players[g] :
             calls[g][n].add_clue = 0 =>
                 /\ Cardinality(players[g][n].positives) = calls[g][n].positive
                 /\ Cardinality(players[g][n].negatives) = calls[g][n].negative)

\* A player has made a negative and a positive play.
C7_Witness ==
    \E g \in Games : \E n \in DOMAIN players[g] :
        /\ calls[g][n].add_clue = 0
        /\ calls[g][n].positive > 0
        /\ calls[g][n].negative > 0

\* The cells the claim calls legal: in the region, without a mark of the
\* acting player, and outside the acting player's positives and negatives.
LegalByOwnMarks(g, number, play_type) ==
    LET self == players[g][number + 1]
        region == IF play_type THEN DictGet(clues[g], self.known_clue[1])
                  ELSE tile_set[g] \ DictGet(clues[g], self.known_clue[1])
    IN  { tile \in region :
            /\ Marks(board[g], tile_set[g])[tile][number + 1] = "None"
            /\ tile \notin self.positives \cup self.negatives }

\* The same without the cells that carry a negative mark of any player.
LegalByNegativeMarks(g, number, play_type) ==
    { tile \in LegalByOwnMarks(g, number, play_type) :
        \A k \in 1..MarkCount : Marks(board[g], tile_set[g])[tile][k] # "False" }

\* A play that got as far as choosing among its legal cells.
PlayChose == IsCall("play") /\ ret'.exc \in { "None", "NoLegalPlayError" }

\* C8 as claimed: the cells play chooses from are the cells of the region
\* without a mark of the acting player and outside its positives and
\* negatives; another player's mark excludes no cell.
C8_LegalCellsIgnoreOtherPlayers ==
    [][ PlayChose => Range(ret'.possible_tiles)
                        = LegalByOwnMarks(ret'.game, ret'.number, ret'.play_type) ]_vars

\* C8 as amended: the cells play chooses from are the cells of the region
\* that carry no negative mark of any player and are outside the acting
\* player's positives and negatives.
C8_LegalCellsAvoidNegativeMarks ==
    [][ PlayChose => Range(ret'.possible_tiles)
                        = LegalByNegativeMarks(ret'.game, ret'.number, ret'.play_type) ]_vars

\* A play chose a cell while another cell of its region, free of the acting
\* player's marks and observations, carried another player's negative mark.
C8_Witness ==
    /\ ret.op = "play"
    /\ ret.exc = "None"
    /\ LET g == ret.game
           self == players[g][ret.number + 1]
           region == IF ret.play_type THEN DictGet(clues[g], self.known_clue[1])
                     ELSE tile_set[g] \ DictGet(clues[g], self.known_clue[1])
       IN  \E tile \in region \ (self.positives \cup self.negatives) :
               /\ tile \notin Range(ret.possible_tiles)
               /\ \E k \in 1..MarkCount :
                     k # ret.number + 1 /\ Marks(board[g], tile_set[g])[tile][k] = "False"

\* How many of the candidate clues of game g's player agree with marking
\* tile as play_type.
Agreeing(g, number, tile, play_type) ==
    Cardinality({ i \in DOMAIN players[g][number + 1].clues :
                    (tile \in players[g][number + 1].clues[i].val) <=> play_type })

\* C9: the cell a cluecount play marks has the most agreeing candidate clues
\* among the legal cells, and is the first such cell in their enumeration;
\* as many candidate clues remain after the play as agreed with it.
C9_ClueCountPlaysFirstMaximum ==
    [][ (IsCall("play") /\ ret'.exc = "None" /\ ret'.choice = "cluecount") =>
            LET g     == ret'.game
                tiles == ret'.possible_tiles
                count(tile) == Agreeing(g, ret'.number, tile, ret'.play_type)
            IN  \E i \in DOMAIN tiles :
                    /\ tiles[i] = ret'.play[1]
                    /\ \A j \in DOMAIN tiles : count(tiles[j]) <= count(tiles[i])
                    /\ \A j \in 1..(i - 1) : count(tiles[j]) < count(tiles[i])
                    /\ Len(players'[g][ret'.number + 1].clues) = count(tiles[i]) ]_vars

\* A cluecount play chose between cells of different counts, the best count
\* being shared by a later cell of the enumeration.
C9_Witness ==
    /\ ret.op = "play"
    /\ ret.exc = "None"
    /\ ret.choice = "cluecount"
    /\ \E i, j, k \in DOMAIN ret.clues_remaining :
          /\ ret.clues_remaining[i].key = ret.play[1]
          /\ i < j
          /\ ret.clues_remaining[j].val = ret.clues_remaining[i].val
          /\ ret.clues_remaining[k].val < ret.clues_remaining[i].val


\* --------------------------------------------------------- claims: solver

ClueSetOf(g, i, known_players) ==
    IF (i - 1) \in known_players THEN { players[g][i].known_clue[1] }
    ELSE { players[g][i].clues[k].key : k \in DOMAIN players[g][i].clues }

\* The combinations of one clue per player of game g.
Combinations(g, known_players) ==
    { combo \in [ DOMAIN players[g] -> Range(DictKeys(clues[g])) ] :
        \A i \in DOMAIN players[g] : combo[i] \in ClueSetOf(g, i, known_players) }

\* combo without its k-th clue.
Without(combo, k) ==
    [ i \in 1..(Len(combo) - 1) |-> IF i < k THEN combo[i] ELSE combo[i + 1] ]

\* solve succeeds on combo and fails on combo less any one clue.
Determinative(g, combo) ==
    /\ solve(clues[g], combo).exc = "None"
    /\ \A k \in DOMAIN combo : solve(clues[g], Without(combo, k)).exc # "None"

\* C5: solutions returns one entry per combination of the players' clue sets
\* (the known clue alone for a listed player) on which solve succeeds while
\* it fails on each of its sub-combinations of one clue less; the entry is
\* the cell solve returns, so a cell has as many entries as such combinations
\* name it.
C5_SolutionsListsDeterminativeCombinations ==
    (ret.op = "solutions" /\ ret.exc = "None") =>
        LET g        == ret.game
            accepted == { combo \in Combinations(g, ret.known_players) :
                            Determinative(g, combo) }
        IN  /\ Len(ret.value) = Cardinality(accepted)
            /\ \A tile \in tile_set[g] :
                  Cardinality({ i \in DOMAIN ret.value : ret.value[i] = tile })
                      = Cardinality({ combo \in accepted :
                                        solve(clues[g], combo).value[1] = tile })
            /\ Range(ret.value) \subseteq tile_set[g]

\* solutions listed a cell twice and left out a combination that solve
\* accepts, after the candidate set of a player not listed as known shrank.
C5_Witness ==
    /\ ret.op = "solutions"
    /\ ret.exc = "None"
    /\ \E i, j \in DOMAIN ret.value : i < j /\ ret.value[i] = ret.value[j]
    /\ \E i \in DOMAIN players[ret.game] :
          /\ (i - 1) \notin ret.known_players
          /\ Len(players[ret.game][i].clues) < Len(clues[ret.game])
    /\ \E combo \in Combinations(ret.game, ret.known_players) :
          /\ solve(clues[ret.game], combo).exc = "None"
          /\ ~Determinative(ret.game, combo)


\* ------------------------------------------- two games, the two strategies

\* The rounds of negative plays each game goes through.
Rounds == 1

\* Games whose players' clues are known and leave the first player several
\* cells to mark.
PairFixtures ==
    { [board |-> BoardBasic, player_count |-> 3,
       known_clues |-> Some(<< << "mountain", "swamp" >>, << "forest", "water" >>,
                               << "desert", "swamp" >> >>)],
      [board |-> BoardAdvanced, player_count |-> 3,
       known_clues |-> Some(<< << "mountain", "swamp" >>, << "forest", "water" >>,
                               << "desert", "swamp" >> >>)] }

\* game1 and game2, built from the same board contents and known clues.
InitPair ==
    \E fx \in PairFixtures :
        GameOk(fx) /\ InitGames(<< fx, fx >>, 2 * fx.player_count * Rounds + 1)

\* The successful negative plays of the first n players of game g.
RECURSIVE NegativePlays(_, _)
NegativePlays(g, n) ==
    IF n = 0 THEN 0 ELSE calls[g][n].negative + NegativePlays(g, n - 1)

PlaysDone == NegativePlays(1, Len(players[1])) + NegativePlays(2, Len(players[2]))

\* No call has raised so far.
NothingRaised == ret.op = "play" => ret.exc = "None"

\* The next play of the rounds: in each round every player of game1 plays
\* "random", then every player of game2 plays "cluecount".
RoundStep ==
    LET count  == Len(players[1])
        turn   == PlaysDone % (2 * count)
        g      == IF turn < count THEN 1 ELSE 2
        choice == IF turn < count THEN "random" ELSE "cluecount"
    IN  /\ NothingRaised
        /\ PlaysDone < 2 * count * Rounds
        /\ PlayCall(g, turn % count, FALSE, choice)

\* observer1 = game1.solutions(); observer2 = game2.solutions()
ObserveStep ==
    /\ NothingRaised
    /\ PlaysDone = 2 * Len(players[1]) * Rounds
    /\ budget > 0
    /\ budget' = budget - 1
    /\ ret' = [op |-> "observe",
               observer1 |-> solutions(clues[1], players[1], {}).value,
               observer2 |-> solutions(clues[2], players[2], {}).value]
    /\ UNCHANGED <<board, tile_set, features, clues, players, calls>>

NextPair == RoundStep \/ ObserveStep

SpecPair == InitPair /\ [][NextPair]_vars

CatalogBoards ==
    { HexGrid(dims[1], dims[2],
              [ n \in 1..4 |->
                  Hex(terrain[n],
                      IF n = 1 THEN animal ELSE None,
                      IF n = 4 THEN structure ELSE None) ]) :
        dims \in { << 1, 4 >>, << 2, 2 >> },
        terrain \in [ 1..4 -> { "F", "W" } ],
        animal \in { None, Some("bear") },
        structure \in { None, Some(<< "shack", "black" >>),
                        Some(<< "standing stone", "green" >>) } }

\* A game on one of the boards, and one call on it.
InitCatalog ==
    \E data \in CatalogBoards :
        InitGames(<< [board |-> data, player_count |-> 3, known_clues |-> None] >>, 1)

NextCatalog == AddClueStep

SpecCatalog == InitCatalog /\ [][NextCatalog]_vars

\* The region the catalog holds for the clue of these (sorted) features.
CatalogRegion(catalog, feats, negate) ==
    LET i == CHOOSE i \in DOMAIN catalog :
                catalog[i].key.features = feats /\ catalog[i].key.negate = negate
    IN  catalog[i].val

InCatalog(catalog, feats, negate) ==
    \E i \in DOMAIN catalog :
        catalog[i].key.features = feats /\ catalog[i].key.negate = negate

\* The positive clues of game g are the expansions of the features' cells by
\* the radius radius_of gives, cut to the board, and the unexpanded unions of
\* two terrains.
CatalogFollows(g, radius_of(_)) ==
    /\ \A i \in DOMAIN features[g] :
          features[g][i].val # {} =>
              /\ InCatalog(clues[g], << features[g][i].key >>, FALSE)
              /\ CatalogRegion(clues[g], << features[g][i].key >>, FALSE)
                    = expand(features[g][i].val, radius_of(features[g][i].key))
                          \cap tile_set[g]
    /\ InCatalog(clues[g], << "bear", "cougar" >>, FALSE)
    /\ CatalogRegion(clues[g], << "bear", "cougar" >>, FALSE)
          = expand(DictGet(features[g], "bear") \cup DictGet(features[g], "cougar"), 1)
                \cap tile_set[g]
    /\ \A a, b \in Range(DictValues(TERRAINS)) :
          NameRank(a) < NameRank(b) =>
              /\ InCatalog(clues[g], << a, b >>, FALSE)
              /\ CatalogRegion(clues[g], << a, b >>, FALSE)
                    = DictGet(features[g], a) \cup DictGet(features[g], b)

\* The radius of a single feature's clue as C11 states it.
StatedRadius(name) ==
    IF name \in Range(DictValues(TERRAINS)) THEN 0
    ELSE IF name \in Range(DictValues(ANIMALS)) THEN 1
    ELSE IF name \in { "standing stone", "shack" } THEN 2
    ELSE 3

\* The radius of a single feature's clue: one more than stated for a terrain
\* and for an animal.
SingleRadius(name) ==
    IF name \in Range(DictValues(TERRAINS)) THEN 1
    ELSE IF name \in Range(DictValues(ANIMALS)) THEN 2
    ELSE IF name \in { "standing stone", "shack" } THEN 2
    ELSE 3

\* C11 as stated: the clue of a non-empty feature is its cells expanded by 0
\* for a terrain, 1 for an animal, 2 for a structure kind, 3 for a colour, cut
\* to the board; the combined-animal clue expands by 1; a terrain pair is the
\* unexpanded union.
C11_CatalogUsesStatedRadii == \A g \in Games : CatalogFollows(g, StatedRadius)

\* C11 amended: the same with radius 1 for a single terrain and 2 for a
\* single animal territory (1 for the combined-animal clue, 2 for a structure
\* kind, 3 for a colour, 0 for a terrain pair).
C11_CatalogUsesCodeRadii == \A g \in Games : CatalogFollows(g, SingleRadius)

\* A board on which each radius decides a region: the forest clue reaches
\* beyond the forest, the bear clue beyond the combined-animal clue, and the
\* colour clue beyond the structure clue.
C11_Witness ==
    \E g \in Games :
        /\ DictGet(features[g], "forest") # {}
        /\ CatalogRegion(clues[g], << "forest" >>, FALSE) # DictGet(features[g], "forest")
        /\ DictGet(features[g], "bear") # {}
        /\ CatalogRegion(clues[g], << "bear" >>, FALSE)
              # CatalogRegion(clues[g], << "bear", "cougar" >>, FALSE)
        /\ DictGet(features[g], "green") # {}
        /\ CatalogRegion(clues[g], << "green" >>, FALSE)
              # CatalogRegion(clues[g], << "standing stone" >>, FALSE)

\* Some cell of the board holds a black structure.
HasBlack(data) ==
    \E n \in DOMAIN GridItems(data) :
        /\ GridItems(data)[n].tile.structure # None
        /\ GridItems(data)[n].tile.structure[1][2] = "black"

\* C12: the catalog has negated clues exactly when the board holds a black
\* structure; then every positive clue has exactly one negated counterpart,
\* whose region is the rest of the board; every region lies on the board.
C12_NegatedCluesComplementPositives ==
    \A g \in Games :
        LET catalog == clues[g]
            negated(i) == { j \in DOMAIN catalog :
                              /\ catalog[j].key.negate
                              /\ catalog[j].key.features = catalog[i].key.features }
        IN  /\ (\E j \in DOMAIN catalog : catalog[j].key.negate) <=> HasBlack(board[g])
            /\ HasBlack(board[g]) =>
                  \A i \in DOMAIN catalog :
                      ~catalog[i].key.negate =>
                          /\ Cardinality(negated(i)) = 1
                          /\ \A j \in negated(i) :
                                /\ j # i
                                /\ catalog[j].key # catalog[i].key
                                /\ catalog[j].val \cap catalog[i].val = {}
                                /\ catalog[j].val \cup catalog[i].val = tile_set[g]
            /\ \A i \in DOMAIN catalog : catalog[i].val \subseteq tile_set[g]
            /\ \A i, j \in DOMAIN catalog : catalog[i].key = catalog[j].key => i = j

\* A board with a black structure on which a clue and its negation are both
\* satisfied somewhere, and a clue whose expansion ran over the board's edge.
C12_Witness ==
    \E g \in Games :
        /\ HasBlack(board[g])
        /\ \E i, j \in DOMAIN clues[g] :
              /\ ~clues[g][i].key.negate
              /\ clues[g][j].key.negate
              /\ clues[g][j].key.features = clues[g][i].key.features
              /\ clues[g][i].val # {}
              /\ clues[g][j].val # {}
        /\ ~(expand(DictGet(features[g], "shack"), 2) \subseteq tile_set[g])


\* ------------------------------------------------------ hextools: expand

\* The largest radius expand is called with.
MaxRadius == 2

\* The cells regions are drawn from: neighbours, cells two apart and a cell
\* far from the others.
RegionCells ==
    { << 0, 0, 0 >>, << 0, 1, -1 >>, << 1, 0, -1 >>, << -1, 2, -1 >>, << 4, -1, -3 >> }

\* The state of a behaviour that calls functions of hextools only: no game.
NoGame ==
    /\ board = << >>
    /\ tile_set = << >>
    /\ features = << >>
    /\ clues = << >>
    /\ players = << >>
    /\ calls = << >>

InitExpand ==
    /\ NoGame
    /\ budget = 1
    /\ \E region \in SUBSET RegionCells : \E radius \in 0..MaxRadius :
          ret = [op |-> "arguments", region |-> region, radius |-> radius]

\* expand(region, radius)
ExpandCall ==
    /\ budget > 0
    /\ budget' = budget - 1
    /\ ret.op = "arguments"
    /\ ret' = [op |-> "expand", region |-> ret.region, radius |-> ret.radius,
               value |-> expand(ret.region, ret.radius)]
    /\ UNCHANGED <<board, tile_set, features, clues, players, calls>>

NextExpand == ExpandCall

SpecExpand == InitExpand /\ [][NextExpand]_vars

\* The cells (cubic triples) with coordinates up to `reach` from the origin.
CubicCells(reach) ==
    { << u, v, -u - v >> : u \in (-reach)..reach, v \in (-reach)..reach }

\* The largest coordinate of the cells regions are drawn from.
Extent ==
    LET coords == { Abs(pos[k]) : pos \in RegionCells, k \in 1..3 }
    IN  CHOOSE m \in coords : \A x \in coords : x <= m

\* The cells whose grid distance to some cell of region is at most radius.
Within(region, radius) ==
    { pos \in CubicCells(Extent + radius + 1) :
        \E from \in region : grid_dist(pos, from) <= radius }

\* C13: expand(region, r) is the set of the cells whose grid distance to some
\* cell of region is at most r; expand(region, 0) is region, and
\* expand(region, r) is a subset of expand(region, r + 1).
C13_ExpandIsTheCellsWithinRadius ==
    ret.op = "expand" =>
        /\ ret.value = Within(ret.region, ret.radius)
        /\ ret.radius = 0 => ret.value = ret.region
        /\ ret.value \subseteq expand(ret.region, ret.radius + 1)

\* expand went two rounds from a region with cells more than two apart, and
\* the second round added cells.
C13_Witness ==
    /\ ret.op = "expand"
    /\ ret.radius = 2
    /\ Cardinality(ret.region) >= 2
    /\ \E a, b \in ret.region : grid_dist(a, b) > 2
    /\ expand(ret.region, 1) # ret.value


\* ----------------------------------------------------- hextools: HexGrid

\* The calls made on a grid.
MaxGridCalls == 2

\* seq[::-1]
Reverse(seq) == [ i \in 1..Len(seq) |-> seq[Len(seq) + 1 - i] ]

\* HexGrid.sethex(pos, value) where it returns: self._data[i][j] = value.
sethex(data, pos, value) ==
    LET ij == axial_to_array(pos)
        r  == PyIndex(ij[1], Len(data))
    IN  [ data EXCEPT ![r][PyIndex(ij[2], Len(data[r]))] = value ]

\* HexGrid.rotate reversing the order of the rows only.
rotate_rows_only(data, ignore_dimension) ==
    IF Len(data) % 2 = 1 /\ ~ignore_dimension
    THEN [exc |-> "GridMutationError", data |-> data]
    ELSE [exc |-> "None", data |-> Reverse(data)]

\* HexGrid.rotate(ignore_dimension): the outcome and self._data after it.
rotate(data, ignore_dimension) ==
    IF Len(data) % 2 = 1 /\ ~ignore_dimension
    THEN [exc |-> "GridMutationError", data |-> data]
    ELSE [exc |-> "None",
          data |-> [ i \in 1..Len(data) |-> Reverse(Reverse(data)[i]) ]]

\* HexGrid.flip_vertical(ignore_dimension)
flip_vertical(data, ignore_dimension) ==
    IF Len(data) % 2 = 0 /\ ~ignore_dimension
    THEN [exc |-> "GridMutationError", data |-> data]
    ELSE [exc |-> "None", data |-> Reverse(data)]

\* The grids of the behaviours: each cell holds its own number.
Grids ==
    { HexGrid(dims[1], dims[2], [ n \in 1..(dims[1] * dims[2]) |-> n ]) :
        dims \in { << 1, 2 >>, << 2, 2 >>, << 3, 2 >>, << 2, 3 >> } }

\* The axial positions asked for: on the grids, beside them and before them.
Positions == { << u, v >> : u \in -3..3, v \in -2..2 }

InitGrid ==
    /\ \E data \in Grids : board = << data >>
    /\ tile_set = << >>
    /\ features = << >>
    /\ clues = << >>
    /\ players = << >>
    /\ calls = << >>
    /\ budget = MaxGridCalls
    /\ ret = [op |-> "HexGrid"]

\* board.gethex(pos)
GethexCall(pos) ==
    /\ budget > 0
    /\ budget' = budget - 1
    /\ ret' = IF gethex_ok(board[1], pos)
              THEN [op |-> "gethex", pos |-> pos, exc |-> "None",
                    value |-> Some(gethex(board[1], pos))]
              ELSE [op |-> "gethex", pos |-> pos, exc |-> "IndexError", value |-> None]
    /\ UNCHANGED <<board, tile_set, features, clues, players, calls>>

\* board.sethex(pos, value)
SethexCall(pos, value) ==
    /\ budget > 0
    /\ budget' = budget - 1
    /\ IF gethex_ok(board[1], pos)
       THEN /\ board' = << sethex(board[1], pos, value) >>
            /\ ret' = [op |-> "sethex", pos |-> pos, exc |-> "None", value |-> Some(value)]
       ELSE /\ board' = board
            /\ ret' = [op |-> "sethex", pos |-> pos, exc |-> "IndexError",
                       value |-> Some(value)]
    /\ UNCHANGED <<tile_set, features, clues, players, calls>>

\* board.rotate(ignore_dimension)
RotateCall(ignore_dimension) ==
    /\ budget > 0
    /\ budget' = budget - 1
    /\ board' = << rotate(board[1], ignore_dimension).data >>
    /\ ret' = [op |-> "rotate", ignore_dimension |-> ignore_dimension,
               exc |-> rotate(board[1], ignore_dimension).exc]
    /\ UNCHANGED <<tile_set, features, clues, players, calls>>

\* board.flip_vertical(ignore_dimension)
FlipVerticalCall(ignore_dimension) ==
    /\ budget > 0
    /\ budget' = budget - 1
    /\ board' = << flip_vertical(board[1], ignore_dimension).data >>
    /\ ret' = [op |-> "flip_vertical", ignore_dimension |-> ignore_dimension,
               exc |-> flip_vertical(board[1], ignore_dimension).exc]
    /\ UNCHANGED <<tile_set, features, clues, players, calls>>

GethexStep == \E pos \in Positions : GethexCall(pos)

SethexStep == \E pos \in Positions : SethexCall(pos, 0)

RotateStep == \E ignore_dimension \in BOOLEAN : RotateCall(ignore_dimension)

FlipVerticalStep == \E ignore_dimension \in BOOLEAN : FlipVerticalCall(ignore_dimension)

NextGrid == GethexStep \/ SethexStep \/ RotateStep \/ FlipVerticalStep

SpecGrid == InitGrid /\ [][NextGrid]_vars

\* C14: gethex and sethex raise the out-of-bounds error for every position
\* whose array index (row, column) lies outside the stored rectangle, negative
\* indices included, and leave the grid as it was; inside the rectangle they
\* read or write the cell at that index and no other.
C14_OutsideTheRectangleAlwaysFails ==
    [][ (IsCall("gethex") \/ IsCall("sethex")) =>
            LET data   == board[1]
                ij     == axial_to_array(ret'.pos)
                inside == /\ 0 <= ij[1] /\ ij[1] < Len(data)
                          /\ 0 <= ij[2] /\ ij[2] < Len(data[1])
            IN  IF inside
                THEN /\ ret'.exc = "None"
                     /\ ret'.op = "gethex" =>
                           /\ ret'.value = Some(data[ij[1] + 1][ij[2] + 1])
                           /\ board' = board
                     /\ ret'.op = "sethex" =>
                           board' = << [ data EXCEPT ![ij[1] + 1][ij[2] + 1] =
                                                        ret'.value[1] ] >>
                ELSE /\ ret'.exc = "IndexError"
                     /\ board' = board ]_vars

\* C15: rotate without the override raises on an odd row count and
\* flip_vertical without it on an even row count, the grid unchanged; when
\* they return, rotate has moved the content at (i, j) to
\* (rows-1-i, columns-1-j) and flip_vertical to (rows-1-i, j), and the same
\* call once more gives the grid back.
C15_RotateAndFlipMoveContent ==
    [][ (IsCall("rotate") \/ IsCall("flip_vertical")) =>
            LET old  == board[1]
                new  == board'[1]
                rows == Len(old)
                cols == Len(old[1])
                odd  == rows % 2 = 1
                fails == /\ ~ret'.ignore_dimension
                         /\ IF ret'.op = "rotate" THEN odd ELSE ~odd
            IN  IF fails
                THEN ret'.exc = "GridMutationError" /\ new = old
                ELSE /\ ret'.exc = "None"
                     /\ Len(new) = rows
                     /\ \A i \in 1..rows :
                           /\ Len(new[i]) = cols
                           /\ \A j \in 1..cols :
                                 IF ret'.op = "rotate"
                                 THEN new[rows + 1 - i][cols + 1 - j] = old[i][j]
                                 ELSE new[rows + 1 - i][j] = old[i][j]
                     /\ IF ret'.op = "rotate"
                        THEN rotate(new, ret'.ignore_dimension).data = old
                        ELSE flip_vertical(new, ret'.ignore_dimension).data = old ]_vars

\* rotate returned on a grid of several rows and columns: the content of the
\* last cell is now in the first.
C15_Witness ==
    /\ ret.op = "rotate"
    /\ ret.exc = "None"
    /\ ~ret.ignore_dimension
    /\ Len(board[1]) > 1
    /\ Len(board[1][1]) > 1
    /\ board[1][1][1] = Len(board[1]) * Len(board[1][1])


\* ------------------------------------------------- hextools: coordinates

\* The largest coordinate, either sign, the conversions are given.
MaxCoord == 7

\* A pair of integers, and room for two conversions of it.
InitCoords ==
    /\ NoGame
    /\ budget = 2
    /\ \E a \in (-MaxCoord)..MaxCoord : \E b \in (-MaxCoord)..MaxCoord :
          ret = [op |-> "arguments", origin |-> << a, b >>, value |-> << a, b >>,
                 applied |-> << >>]

\* array_to_axial(*value)
ArrayToAxialCall ==
    /\ budget > 0
    /\ budget' = budget - 1
    /\ ret' = [op |-> "array_to_axial", origin |-> ret.origin,
               value |-> array_to_axial(ret.value[1], ret.value[2]),
               applied |-> Append(ret.applied, "array_to_axial")]
    /\ UNCHANGED <<board, tile_set, features, clues, players, calls>>

\* axial_to_array(*value)
AxialToArrayCall ==
    /\ budget > 0
    /\ budget' = budget - 1
    /\ ret' = [op |-> "axial_to_array", origin |-> ret.origin,
               value |-> axial_to_array(ret.value),
               applied |-> Append(ret.applied, "axial_to_array")]
    /\ UNCHANGED <<board, tile_set, features, clues, players, calls>>

NextCoords == ArrayToAxialCall \/ AxialToArrayCall

SpecCoords == InitCoords /\ [][NextCoords]_vars

\* C16: array_to_axial after axial_to_array, and axial_to_array after
\* array_to_axial, give back the pair of integers they started from.
C16_ConversionsAreInverses ==
    (Len(ret.applied) = 2 /\ ret.applied[1] # ret.applied[2]) => ret.value = ret.origin

\* A pair with an odd negative row went through both conversions, and the
\* first one changed it.
C16_Witness ==
    /\ ret.applied = << "axial_to_array", "array_to_axial" >>
    /\ ret.origin[1] < 0
    /\ ret.origin[1] % 2 = 1
    /\ axial_to_array(ret.origin) # ret.origin
    /\ ret.value = ret.origin


\* ----------------------------------------------------- hextools: nearest

\* Fractional coordinates are counted in parts of 1/Den.
Den == 4

\* The largest numerator, either sign, of a fractional coordinate.
MaxNumerator == 6

\* round(n / Den): to the nearest integer, a half to the even one.
Round(n) ==
    LET q == n \div Den
        r == n % Den
    IN  IF 2 * r < Den THEN q
        ELSE IF 2 * r > Den THEN q + 1
        ELSE IF q % 2 = 0 THEN q ELSE q + 1

\* sum(rounded)
Sum3(t) == t[1] + t[2] + t[3]

\* The body of HexGrid.nearest from the fractional cubic coordinates pixel
\* (numerators over Den) to the triple it hands to gethex.
nearest_rounded(pixel) ==
    LET rounded   == [ k \in 1..3 |-> Round(pixel[k]) ]
        diffs     == [ k \in 1..3 |-> Abs(pixel[k] - rounded[k] * Den) ]
        max_index == CHOOSE k \in 1..3 :
                        /\ \A m \in 1..3 : diffs[m] <= diffs[k]
                        /\ \A m \in 1..(k - 1) : diffs[m] < diffs[k]
    IN  [ rounded EXCEPT ![max_index] = Sum3(rounded) - rounded[max_index] ]

\* A grid and the fractional cubic coordinates of a point.
InitNearest ==
    /\ \E data \in Grids : board = << data >>
    /\ tile_set = << >>
    /\ features = << >>
    /\ clues = << >>
    /\ players = << >>
    /\ calls = << >>
    /\ budget = 1
    /\ \E u \in (-MaxNumerator)..MaxNumerator : \E v \in (-MaxNumerator)..MaxNumerator :
          ret = [op |-> "arguments", pixel |-> << u, v, -u - v >>]

\* board.nearest(x, y), (x, y) being the point whose cubic coordinates are
\* ret.pixel.
NearestCall ==
    /\ budget > 0
    /\ budget' = budget - 1
    /\ ret.op = "arguments"
    /\ LET rounded == nearest_rounded(ret.pixel)
       IN  ret' = IF gethex_ok(board[1], rounded)
                  THEN [op |-> "nearest", pixel |-> ret.pixel, rounded |-> rounded,
                        exc |-> "None", value |-> Some(gethex(board[1], rounded))]
                  ELSE [op |-> "nearest", pixel |-> ret.pixel, rounded |-> rounded,
                        exc |-> "IndexError", value |-> None]
    /\ UNCHANGED <<board, tile_set, features, clues, players, calls>>

NextNearest == NearestCall

SpecNearest == InitNearest /\ [][NextNearest]_vars

\* C17: the triple nearest has after it corrected the component with the
\* largest rounding error sums to zero.
C17_CorrectedTripleSumsToZero ==
    ret.op = "nearest" => Sum3(ret.rounded) = 0


\* ------------------------------------------- what a call leaves unchanged

\* games[g].solve([clue]) for a clue of the catalog.
SolveOneStep ==
    \E g \in Games : \E i \in DOMAIN clues[g] : SolveCall(g, << clues[g][i].key >>)

InitFrame ==
    \E fx \in SolverFixtures : GameOk(fx) /\ InitGames(<< fx >>, MaxSolverCalls)

NextFrame == AddClueStep \/ PlayStep \/ SolveOneStep \/ SolutionsStep

SpecFrame == InitFrame /\ [][NextFrame]_vars

\* C18: add_clue and play on one player leave every other player (candidate
\* clues, positives, negatives, known clue) and the catalog as they were;
\* solve and solutions leave the catalog, every player and every mark as they
\* were.
C18_CallsLeaveOthersUnchanged ==
    [][ /\ (IsCall("add_clue") \/ IsCall("play")) =>
              /\ clues' = clues
              /\ DOMAIN players' = DOMAIN players
              /\ \A g \in Games : \A n \in DOMAIN players[g] :
                    (g # ret'.game \/ n # ret'.number + 1) =>
                        players'[g][n] = players[g][n]
        /\ (IsCall("solve") \/ IsCall("solutions")) =>
              /\ clues' = clues
              /\ players' = players
              /\ board' = board ]_vars

\* A play has shrunk the candidate set of the player who made it, and
\* another player of the game still has every clue of the catalog.
C18_Witness ==
    /\ ret.op = "play"
    /\ ret.exc = "None"
    /\ Len(players[ret.game][ret.number + 1].clues) < Len(clues[ret.game])
    /\ \E n \in DOMAIN players[ret.game] :
          /\ n # ret.number + 1
          /\ Len(players[ret.game][n].clues) = Len(clues[ret.game])

\* C19: a known clue that is set is a key of the player's candidate clues.
C19_KnownClueIsCandidate ==
    \A g \in Games : \A n \in DOMAIN players[g] :
        players[g][n].known_clue # None =>
            DictHas(players[g][n].clues, players[g][n].known_clue[1])

=============================================================================
